---- MODULE Spec2Model ----
(***************************************************************************)
(* Verification model of the zeropool relayer's optimistic-commit          *)
(* pipeline: the persistent Merkle tree engine (merkle_tree.rs), the       *)
(* transaction log (tx_storage.rs), the job queue (job_queue.rs), the      *)
(* worker (tx_worker.rs), the create-transaction handler (json_api.rs)     *)
(* and boot reconciliation (state.rs).                                     *)
(*                                                                         *)
(* Hashes are modelled as terms: a commitment c is the term <<c>>, and     *)
(* poseidon over two children is the pair <<l, r>> (abbreviated for empty  *)
(* subtrees), which is injective like a collision-free hash.  An absent    *)
(* Option is the empty tuple.                                              *)
(***************************************************************************)
EXTENDS Integers, Sequences, FiniteSets, TLC

VARIABLES
    tree,        \* MerkleTree storage: [nodes, num_leaves, roots]
    log,         \* TxStorage: [keys, next_index]
    pool_index,  \* AppState.pool_index
    pool_root,   \* AppState.pool_root
    jobs,        \* redis list "jobs"
    job_counter, \* redis key "job_counter"
    status,      \* redis keys "job:{id}"
    job_mapping, \* redis keys "job_mapping:{key}"
    handlers,    \* create_transaction tasks: position and locals
    worker,      \* the queue consumer: position and current job
    chain,       \* the backend: confirmed history and pool index
    hist         \* history variables used by the properties

vars == <<tree, log, pool_index, pool_root, jobs, job_counter, status,
          job_mapping, handlers, worker, chain, hist>>

-----------------------------------------------------------------------------
(* Bounds and program constants *)

\* Tree height (constants::HEIGHT - constants::OUTPLUSONELOG), scaled down.
H == 3
\* Levels below a commitment leaf (constants::OUTPLUSONELOG), scaled down.
OUTPLUSONELOG == 1
\* constants::OUT + 1
STRIDE == 128
\* vec![0; 32], the placeholder transaction hash
ZeroHash == 0
\* Number of concurrent create_transaction requests.
NumHandlers == 4
\* Number of appends explored by the tree-engine specification.
MaxLeaves == 3
\* How far below its capacity the tree is refilled.
FillDepth == 2
\* Number of create_transaction requests served while /info is answered.
InfoRequests == 2
\* Number of create_transaction requests served under the fair schedule.
LiveHandlers == 2
\* Number of transactions in the pool's history at boot.
MaxChain == 3

\* Number of log rows past the first explored by the log specification.
MaxRows == 2

\* Width of the unsigned integers amounts are read as (U256), scaled down.
UintBits == 8
\* Width of a field element (Fr), scaled down: to_uint() is below 2^FrBits.
FrBits == 6

\* The commitments appended by the tree-engine and boot specifications: two
\* distinct values, so that the order of the leaves shows in the root.
LeafVals == {<<1>>, <<2>>}

None == <<>>

Pow2(n) == 2^n

Min(a, b) == IF a < b THEN a ELSE b

\* Function f without key k.
Drop(f, k) == [x \in (DOMAIN f) \ {k} |-> f[x]]

\* Function f with key k bound to v.
Put(f, k, v) == [x \in (DOMAIN f) \cup {k} |-> IF x = k THEN v ELSE f[x]]

EmptyMap == [x \in {} |-> None]

-----------------------------------------------------------------------------
(* merkle_tree.rs *)

key(depth, index) == Pow2(depth) - 1 + index

ZERO == <<0>>

\* The hash of two children, as a term.  The hash of two equal empty subtrees
\* of depth k is written <<-(k + 1)>> instead of the pair, ZERO being <<0>>:
\* the terms stay in one-to-one correspondence with the pairs.
poseidon(l, r) ==
    IF l = r /\ Len(l) = 1 /\ l[1] <= 0 THEN <<l[1] - 1>> ELSE <<l, r>>

RECURSIVE full_default_nodes(_)
full_default_nodes(i) ==
    IF i = H + OUTPLUSONELOG THEN ZERO
    ELSE poseidon(full_default_nodes(i + 1), full_default_nodes(i + 1))

default_nodes(d) == full_default_nodes(d)

set_tx(nodes, depth, index, value) == Put(nodes, key(depth, index), value)

delete_tx(nodes, depth, index) == Drop(nodes, key(depth, index))

get_tx(nodes, depth, index) ==
    IF key(depth, index) \in DOMAIN nodes THEN nodes[key(depth, index)] ELSE None

unwrap_or(opt, dflt) == IF opt = None THEN dflt ELSE opt

xor1(i) == IF i % 2 = 0 THEN i + 1 ELSE i - 1

\* MerkleTree::open on a fresh file, and Storage::open's initial contents.
open_tree ==
    [nodes |-> EmptyMap, num_leaves |-> 0, roots |-> Put(EmptyMap, 0, default_nodes(0))]

\* Storage::clear
clear(t) == [nodes |-> EmptyMap, num_leaves |-> 0, roots |-> EmptyMap]

\* One iteration of set_node's loop at `depth` (>= 1), then the rest of the loop.
RECURSIVE set_node_loop(_, _, _, _)
set_node_loop(nodes, depth, cur_index, cur_hash) ==
    IF depth = 0 THEN nodes
    ELSE LET sibling_hash ==
                 unwrap_or(get_tx(nodes, depth, xor1(cur_index)), default_nodes(depth))
             parent_hash ==
                 IF cur_index % 2 = 0 THEN poseidon(cur_hash, sibling_hash)
                                      ELSE poseidon(sibling_hash, cur_hash)
             parent_depth == depth - 1
             parent_index == cur_index \div 2
             nodes2 ==
                 IF parent_hash # default_nodes(parent_depth)
                 THEN set_tx(nodes, parent_depth, parent_index, parent_hash)
                 ELSE delete_tx(nodes, parent_depth, parent_index)
         IN  set_node_loop(nodes2, parent_depth, parent_index, parent_hash)

set_node(nodes, depth, index, hash) ==
    set_node_loop(set_tx(nodes, depth, index, hash), depth, index, hash)

root(t) == unwrap_or(get_tx(t.nodes, 0, 0), default_nodes(0))

leaf(t, index) == unwrap_or(get_tx(t.nodes, H, index), default_nodes(H))

historic_root(t, index) ==
    IF index \in DOMAIN t.roots THEN t.roots[index] ELSE None

num_leaves(t) == t.num_leaves

\* add_leaf filing the new root under the old leaf count.
add_leaf_root_at_index(t, hash) ==
    LET index == t.num_leaves
        t1 == [t EXCEPT !.nodes = set_node(t.nodes, H, index, hash)]
        t2 == [t1 EXCEPT !.num_leaves = index + 1]
    IN  [t2 EXCEPT !.roots = Put(t2.roots, index, root(t2))]

add_leaf(t, hash) ==
    LET index == t.num_leaves
        t1 == [t EXCEPT !.nodes = set_node(t.nodes, H, index, hash)]
        t2 == [t1 EXCEPT !.num_leaves = index + 1]
    IN  [t2 EXCEPT !.roots = Put(t2.roots, index + 1, root(t2))]

\* A rollback that leaves the nodes beyond the cut in place.
delete_range_none(nodes, depth, lo, hi) == nodes

\* Deletes the nodes (depth, i) for i in lo..hi.
RECURSIVE delete_range(_, _, _, _)
delete_range(nodes, depth, lo, hi) ==
    IF lo > hi THEN nodes
    ELSE delete_range(delete_tx(nodes, depth, lo), depth, lo + 1, hi)

\* rollback's loop, iteration h (depth = H - h), then the remaining iterations.
RECURSIVE rollback_loop(_, _, _, _)
rollback_loop(nodes, h, index, old_num_leaves) ==
    IF h = H THEN nodes
    ELSE LET depth == H - h
             cur_index == index \div Pow2(h)
             parent_index == cur_index \div 2
             cur_num_leaves == old_num_leaves \div Pow2(h)
             parent_depth == depth - 1
             nodes1 == delete_range(nodes, depth, cur_index + 1, cur_num_leaves)
             current == unwrap_or(get_tx(nodes1, depth, cur_index), default_nodes(depth))
             sibling ==
                 unwrap_or(get_tx(nodes1, depth, xor1(cur_index)), default_nodes(depth))
             parent_hash ==
                 IF cur_index % 2 = 1 THEN poseidon(sibling, current)
                                      ELSE poseidon(current, sibling)
             nodes2 ==
                 IF parent_hash = default_nodes(parent_depth)
                 THEN delete_tx(nodes1, parent_depth, parent_index)
                 ELSE set_tx(nodes1, parent_depth, parent_index, parent_hash)
         IN  rollback_loop(nodes2, h + 1, index, old_num_leaves)

\* The historic-root keys rollback removes: index..old_num_leaves (exclusive).
rollback_root_keys(index, old_num_leaves) == index .. (old_num_leaves - 1)

\* Whether rollback(index) bails on a tree of old_num_leaves leaves (index # 0).
\* MerkleTree::rollback without its index check.
rollback_never_bails(index, old_num_leaves) == FALSE

rollback_bails(index, old_num_leaves) == index >= old_num_leaves

\* MerkleTree::rollback: [ok, tree]
rollback(t, index) ==
    IF index = 0 THEN [ok |-> TRUE, tree |-> clear(t)]
    ELSE IF rollback_bails(index, t.num_leaves) THEN [ok |-> FALSE, tree |-> t]
    ELSE LET old_num_leaves == t.num_leaves
             roots1 == [k \in (DOMAIN t.roots) \ rollback_root_keys(index, old_num_leaves)
                          |-> t.roots[k]]
             nodes1 == delete_tx(t.nodes, H, index)
         IN  [ok |-> TRUE,
              tree |-> [nodes |-> rollback_loop(nodes1, 0, index, old_num_leaves),
                        num_leaves |-> index,
                        roots |-> roots1]]

\* The depth merkle_proof reads the i-th sibling at.
proof_depth(i) == (H - 1) - i

\* MerkleTree::merkle_proof: the H sibling hashes, i = 0 first.
merkle_proof(t, index) ==
    [j \in 1..H |->
        LET i == j - 1
            depth == proof_depth(i)
            cur_index == index \div Pow2(i)
        IN  unwrap_or(get_tx(t.nodes, depth, xor1(cur_index)), default_nodes(depth))]

\* MerkleTree::zp_merkle_proof: [sibling, path]
zp_merkle_proof(t, index) ==
    [sibling |-> merkle_proof(t, index),
     path |-> [j \in 1..H |-> ((index \div Pow2(H - j)) % 2) = 0]]

-----------------------------------------------------------------------------
(* Reference definitions used by the properties *)

\* Reference root of the subtree at (depth, index) over the leaf sequence s:
\* pairs hashed as (even child, odd child), absent nodes the level default.
RECURSIVE RefNode(_, _, _)
RefNode(s, depth, index) ==
    IF index * Pow2(H - depth) >= Len(s) THEN default_nodes(depth)
    ELSE IF depth = H THEN s[index + 1]
    ELSE poseidon(RefNode(s, depth + 1, 2 * index), RefNode(s, depth + 1, 2 * index + 1))

RefRoot(s) == RefNode(s, 0, 0)

\* The leaves the tree currently reads, as a sequence.
TreeLeaves(t) == [i \in 1..t.num_leaves |-> leaf(t, i - 1)]

\* Folding a leaf bottom-up with the siblings; a path entry TRUE puts the
\* running hash on the left (the entry is "bit = 0", an even node).
RECURSIVE Fold(_, _, _, _)
Fold(cur, sibling, path, j) ==
    IF j > Len(sibling) THEN cur
    ELSE Fold(IF path[j] THEN poseidon(cur, sibling[j]) ELSE poseidon(sibling[j], cur),
              sibling, path, j + 1)

Reverse(s) == [j \in 1..Len(s) |-> s[Len(s) + 1 - j]]

Negate(s) == [j \in 1..Len(s) |-> ~s[j]]

-----------------------------------------------------------------------------
(* tx_storage.rs *)

\* TxStorage::open on a fresh file
open_log == [keys |-> EmptyMap, next_index |-> 0]

next_index(l) == l.next_index

\* The next_index TxStorage::set stores after writing the row at `index`.
set_next_index(l, index) == index + STRIDE

\* TxStorage::set without its index check.
set_unchecked(l, index, out_commit, tx_hash, memo) ==
    [ok |-> TRUE,
     log |-> [keys |-> Put(l.keys, index,
                           [out_commit |-> out_commit, tx_hash |-> tx_hash,
                            memo |-> memo]),
              next_index |-> set_next_index(l, index)]]

\* TxStorage::set: [ok, log]
set(l, index, out_commit, tx_hash, memo) ==
    IF index > next_index(l) THEN [ok |-> FALSE, log |-> l]
    ELSE [ok |-> TRUE,
          log |-> [keys |-> Put(l.keys, index,
                                [out_commit |-> out_commit, tx_hash |-> tx_hash,
                                 memo |-> memo]),
                   next_index |-> set_next_index(l, index)]]

\* TxStorage::push, the call prepare_job makes: append-or-overwrite.
push(l, index, out_commit, tx_hash, memo) == set(l, index, out_commit, tx_hash, memo)

\* TxStorage::get
get(l, index) == IF index \in DOMAIN l.keys THEN l.keys[index] ELSE None

\* TxStorage::rollback keeping the row at `index`.
tx_rollback_after(l, index) ==
    [keys |-> [k \in {x \in DOMAIN l.keys : ~(x > index)} |-> l.keys[k]],
     next_index |-> index]

\* TxStorage::rollback
tx_rollback(l, index) ==
    [keys |-> [k \in {x \in DOMAIN l.keys : ~(x >= index)} |-> l.keys[k]],
     next_index |-> index]

-----------------------------------------------------------------------------
(* job_queue.rs *)

\* JobQueue::job_status
job_status(st, id) == IF id \in DOMAIN st THEN st[id] ELSE None

\* JobQueue::is_job_cancelled: a cancelled job is one cancel_jobs_after marked.
is_job_cancelled(st, id) == job_status(st, id) = "Failed"

\* cancel_jobs_after marking nothing.
cancelled_ids_none(queue, job_id) == {}

\* The ids cancel_jobs_after(job_id) marks: those of the jobs in the list.
cancelled_ids(queue, job_id) == {queue[i].id : i \in {j \in 1..Len(queue) : queue[j].id > job_id}}

\* JobQueue::cancel_jobs_after: the status keys afterwards
cancel_jobs_after(st, queue, job_id) ==
    [id \in (DOMAIN st) \cup cancelled_ids(queue, job_id) |->
        IF id \in cancelled_ids(queue, job_id) THEN "Failed" ELSE st[id]]

\* JobQueue::start with on_failure: the consumer's position after on_job
\* returned Err and the status was set to Failed.
on_failure_pc == "pf_log"

-----------------------------------------------------------------------------
(* tx_worker.rs *)

\* A transaction size that is one more than the stride.
TX_SIZE_off_by_one == STRIDE + 1

TX_SIZE == STRIDE

saturating_sub(a, b) == IF a < b THEN 0 ELSE a - b

\* The index process_failure rolls both stores back to.
rollback_target(data) == data.prev_commit_index

\* prepare_job, run under the tree lock: [ok, tree, log, payload].  `seq` is
\* the order in which the calls held the lock (a history value).
prepare_job(t, l, tx, seq) ==
    LET root_before == root(t)
        next_commit_index == num_leaves(t)
        prev_commit_index == saturating_sub(next_commit_index, 1)
        t1 == add_leaf(t, tx.out_commit)
        pushed == push(l, next_commit_index * TX_SIZE, tx.out_commit, ZeroHash, tx.memo)
        root_after == root(t1)
        proof_filled == zp_merkle_proof(t1, prev_commit_index)
        proof_free == zp_merkle_proof(t1, next_commit_index)
        prev_leaf == leaf(t1, prev_commit_index)
    IN  [ok |-> pushed.ok,
         tree |-> t1,
         log |-> pushed.log,
         payload |->
            IF pushed.ok
            THEN [tx |-> tx,
                  tree_pub |-> [root_before |-> root_before, root_after |-> root_after,
                                leaf |-> tx.out_commit],
                  tree_sec |-> [proof_filled |-> proof_filled, proof_free |-> proof_free,
                                prev_leaf |-> prev_leaf],
                  next_commit_index |-> next_commit_index,
                  prev_commit_index |-> prev_commit_index,
                  seq |-> seq]
            ELSE None]

-----------------------------------------------------------------------------
(* The pipeline: create_transaction handlers and the queue consumer *)

Handlers == 1..NumHandlers

\* The request handler h serves: its commitment and memo.
tx_of(h) == [out_commit |-> <<h>>, memo |-> h]

\* The hash send_tx returns for the k-th accepted transaction.
chain_hash(k) == k

Init ==
    /\ tree = open_tree
    /\ log = open_log
    /\ pool_index = 0
    /\ pool_root = default_nodes(0)
    /\ jobs = <<>>
    /\ job_counter = 0
    /\ status = EmptyMap
    /\ job_mapping = EmptyMap
    /\ handlers = [h \in Handlers |-> [pc |-> "start"]]
    /\ worker = [pc |-> "idle"]
    /\ chain = [pool_index |-> 0, txs |-> <<>>]
    /\ hist = [seq |-> 0, sent |-> <<>>, failures |-> {}, started |-> <<>>,
               returned |-> {}]

\* create_transaction: prepare_job(tx, state), holding the tree lock throughout.
\* The calls on the tree commute with the consumer's calls on the log, and the
\* consumer touches the tree only under the same lock, so one step for the
\* whole call loses no interleaving.  The requests are alike but for their
\* commitment, so the handlers are numbered in the order in which they take
\* the lock.
Prepare(h) ==
    /\ handlers[h].pc = "start"
    /\ \A g \in Handlers : g < h => handlers[g].pc # "start"
    /\ num_leaves(tree) + 1 < Pow2(H)
    /\ LET r == prepare_job(tree, log, tx_of(h), hist.seq + 1) IN
        /\ tree' = r.tree
        /\ log' = r.log
        /\ handlers' = [handlers EXCEPT ![h] =
              IF r.ok THEN [pc |-> "prepared", payload |-> r.payload]
                      ELSE [pc |-> "error", tree_before |-> tree, tree_after |-> r.tree,
                            log_before |-> log, log_after |-> r.log,
                            index |-> num_leaves(tree)]]
        /\ hist' = [hist EXCEPT !.seq = hist.seq + 1]
    /\ UNCHANGED <<pool_index, pool_root, jobs, job_counter, status, job_mapping,
                   worker, chain>>

\* JobQueue::push: incr job_counter
PushIncr(h) ==
    /\ handlers[h].pc = "prepared"
    /\ job_counter' = job_counter + 1
    /\ handlers' = [handlers EXCEPT ![h] = [@ EXCEPT !.pc = "incremented"]
                                            @@ [job_id |-> job_counter + 1]]
    /\ UNCHANGED <<tree, log, pool_index, pool_root, jobs, status, job_mapping,
                   worker, chain, hist>>

\* JobQueue::push: rpush jobs
PushRpush(h) ==
    /\ handlers[h].pc = "incremented"
    /\ jobs' = Append(jobs, [id |-> handlers[h].job_id, data |-> handlers[h].payload])
    /\ handlers' = [handlers EXCEPT ![h].pc = "queued"]
    /\ UNCHANGED <<tree, log, pool_index, pool_root, job_counter, status, job_mapping,
                   worker, chain, hist>>

\* JobQueue::push: set job:{id} = Pending, and the response
PushSetPending(h) ==
    /\ handlers[h].pc = "queued"
    /\ status' = Put(status, handlers[h].job_id, "Pending")
    /\ handlers' = [handlers EXCEPT ![h].pc = "done"]
    /\ UNCHANGED <<tree, log, pool_index, pool_root, jobs, job_counter, job_mapping,
                   worker, chain, hist>>

\* JobQueue::start: blpop, set InProgress; process_job: add_job_mapping, the
\* tree proof.
WorkerDequeue ==
    /\ worker.pc = "idle"
    /\ jobs # <<>>
    /\ jobs' = Tail(jobs)
    /\ status' = Put(status, Head(jobs).id, "InProgress")
    /\ job_mapping' = Put(job_mapping, Head(jobs).data.next_commit_index, Head(jobs).id)
    /\ worker' = [pc |-> "await_turn", job |-> Head(jobs)]
    /\ hist' = [hist EXCEPT !.started = Append(@, Head(jobs).id)]
    /\ UNCHANGED <<tree, log, pool_index, pool_root, job_counter, handlers, chain>>

\* process_job: one iteration of the wait loop
WorkerAwaitTurn ==
    /\ worker.pc = "await_turn"
    /\ worker' =
          IF is_job_cancelled(status, worker.job.id)
          THEN [worker EXCEPT !.pc = "job_err"]
          ELSE IF pool_index = worker.job.data.next_commit_index * TX_SIZE
          THEN [worker EXCEPT !.pc = "send_tx"]
          ELSE worker
    /\ UNCHANGED <<tree, log, pool_index, pool_root, jobs, job_counter, status,
                   job_mapping, handlers, chain, hist>>

\* process_job: backend.send_tx, accepted or not
WorkerSendTx(accepted) ==
    /\ worker.pc = "send_tx"
    /\ worker' = IF accepted
                 THEN [worker EXCEPT !.pc = "finalize_set"]
                         @@ [tx_hash |-> chain_hash(Len(chain.txs) + 1)]
                 ELSE [worker EXCEPT !.pc = "job_err"]
    /\ chain' = IF accepted
                THEN [pool_index |-> chain.pool_index + STRIDE,
                      txs |-> Append(chain.txs,
                                     [hash |-> chain_hash(Len(chain.txs) + 1),
                                      out_commit |-> worker.job.data.tx.out_commit])]
                ELSE chain
    /\ hist' = [hist EXCEPT !.sent =
                   Append(@, [id |-> worker.job.id,
                              seq |-> worker.job.data.seq,
                              next_commit_index |-> worker.job.data.next_commit_index,
                              pool_index |-> pool_index,
                              accepted |-> accepted,
                              failures |-> hist.failures])]
    /\ UNCHANGED <<tree, log, pool_index, pool_root, jobs, job_counter, status,
                   job_mapping, handlers>>

\* process_job: transactions.set with the real hash
WorkerFinalizeSet ==
    /\ worker.pc = "finalize_set"
    /\ LET d == worker.job.data
           r == set(log, d.next_commit_index * TX_SIZE, d.tx.out_commit,
                    worker.tx_hash, d.tx.memo)
       IN  /\ log' = r.log
           /\ worker' = [worker EXCEPT !.pc = IF r.ok THEN "finalize_index" ELSE "job_err"]
    /\ UNCHANGED <<tree, pool_index, pool_root, jobs, job_counter, status,
                   job_mapping, handlers, chain, hist>>

\* process_job: *ctx.pool_index.write() += TX_SIZE
WorkerFinalizeIndex ==
    /\ worker.pc = "finalize_index"
    /\ pool_index' = pool_index + TX_SIZE
    /\ worker' = [worker EXCEPT !.pc = "finalize_root"]
    /\ UNCHANGED <<tree, log, pool_root, jobs, job_counter, status, job_mapping,
                   handlers, chain, hist>>

\* process_job: *ctx.pool_root.write() = root_after; Ok(()); set Completed
WorkerFinalizeRoot ==
    /\ worker.pc = "finalize_root"
    /\ pool_root' = worker.job.data.tree_pub.root_after
    /\ status' = Put(status, worker.job.id, "Completed")
    /\ worker' = [pc |-> "idle"]
    /\ hist' = [hist EXCEPT !.returned = @ \cup {worker.job.id}]
    /\ UNCHANGED <<tree, log, pool_index, jobs, job_counter, job_mapping,
                   handlers, chain>>

\* JobQueue::start: on_job returned Err: set Failed, run on_failure
WorkerJobErr ==
    /\ worker.pc = "job_err"
    /\ status' = Put(status, worker.job.id, "Failed")
    /\ worker' = [worker EXCEPT !.pc = on_failure_pc]
    /\ hist' = [hist EXCEPT !.returned = @ \cup {worker.job.id}]
    /\ UNCHANGED <<tree, log, pool_index, pool_root, jobs, job_counter, job_mapping,
                   handlers, chain>>

\* process_failure: ctx.transactions.rollback(prev_commit_index)
PfLogRollback ==
    /\ worker.pc = "pf_log"
    /\ log' = tx_rollback(log, rollback_target(worker.job.data))
    /\ worker' = [worker EXCEPT !.pc = "pf_tree"]
    /\ UNCHANGED <<tree, pool_index, pool_root, jobs, job_counter, status,
                   job_mapping, handlers, chain, hist>>

\* process_failure: ctx.tree.lock().await.rollback(prev_commit_index)
PfTreeRollback ==
    /\ worker.pc = "pf_tree"
    /\ LET r == rollback(tree, rollback_target(worker.job.data)) IN
        /\ tree' = r.tree
        /\ worker' = IF r.ok THEN [worker EXCEPT !.pc = "pf_cancel"]
                             ELSE [worker EXCEPT !.pc = "pf_done"] @@ [pf_ok |-> FALSE]
        /\ hist' = [hist EXCEPT !.failures =
                       @ \cup {[id |-> worker.job.id, seq |-> hist.seq, ok |-> r.ok]}]
    /\ UNCHANGED <<log, pool_index, pool_root, jobs, job_counter, status,
                   job_mapping, handlers, chain>>

\* process_failure: ctx.job_queue.cancel_jobs_after(job.id)
PfCancel ==
    /\ worker.pc = "pf_cancel"
    /\ status' = cancel_jobs_after(status, jobs, worker.job.id)
    /\ worker' = [worker EXCEPT !.pc = "pf_done"] @@ [pf_ok |-> TRUE]
    /\ UNCHANGED <<tree, log, pool_index, pool_root, jobs, job_counter, job_mapping,
                   handlers, chain, hist>>

\* JobQueue::start: on_failure returned; back to blpop
WorkerLoop ==
    /\ worker.pc = "pf_done"
    /\ worker' = [pc |-> "idle"]
    /\ UNCHANGED <<tree, log, pool_index, pool_root, jobs, job_counter, status,
                   job_mapping, handlers, chain, hist>>

Next ==
    \/ \E h \in Handlers : Prepare(h)
    \/ \E h \in Handlers : PushIncr(h)
    \/ \E h \in Handlers : PushRpush(h)
    \/ \E h \in Handlers : PushSetPending(h)
    \/ WorkerDequeue
    \/ WorkerAwaitTurn
    \/ \E accepted \in BOOLEAN : WorkerSendTx(accepted)
    \/ WorkerFinalizeSet
    \/ WorkerFinalizeIndex
    \/ WorkerFinalizeRoot
    \/ WorkerJobErr
    \/ PfLogRollback
    \/ PfTreeRollback
    \/ PfCancel
    \/ WorkerLoop

Spec == Init /\ [][Next]_vars

-----------------------------------------------------------------------------
(* The pipeline's contract *)

\* The send_tx calls of jobs whose payload was prepared before a completed
\* process_failure of a job with a smaller id.
StaleSends ==
    {i \in 1..Len(hist.sent) :
        \E f \in hist.sent[i].failures :
            /\ f.ok
            /\ hist.sent[i].id > f.id
            /\ hist.sent[i].seq <= f.seq}

\* C1: the calls to backend.send_tx are made in the order in which the
\* prepare_job calls held the tree lock, the accepted ones in strictly
\* increasing next_commit_index, and each only while
\* pool_index = next_commit_index * STRIDE.
C1_SendOrder ==
    /\ \A i, j \in 1..Len(hist.sent) :
          i < j => /\ hist.sent[i].seq < hist.sent[j].seq
                   /\ (hist.sent[i].accepted /\ hist.sent[j].accepted) =>
                         hist.sent[i].next_commit_index < hist.sent[j].next_commit_index
    /\ \A i \in 1..Len(hist.sent) :
          hist.sent[i].pool_index = hist.sent[i].next_commit_index * STRIDE

\* C2: when process_failure has completed for a job prepared on a tree of n
\* leaves, and no prepare_job ran since that job's, the tree has n leaves and
\* the job's root_before, and the log has exactly the rows below n * STRIDE
\* with next_index = n * STRIDE.
C2_FailureRestores ==
    (/\ worker.pc = "pf_done"
     /\ worker.pf_ok
     /\ hist.seq = worker.job.data.seq) =>
        LET n == worker.job.data.next_commit_index IN
            /\ num_leaves(tree) = n
            /\ root(tree) = worker.job.data.tree_pub.root_before
            /\ DOMAIN log.keys = {i * STRIDE : i \in 0..(n - 1)}
            /\ next_index(log) = n * STRIDE

\* C3: no job calls backend.send_tx after process_failure completed for a job
\* with a smaller id, when its payload was prepared before that rollback.
C3_NoSendAfterFailure == StaleSends = {}

\* C4: when prepare_job returns an error the tree is as it was before the
\* call: leaf and placeholder row are both absent.
C4_PrepareAllOrNothing ==
    \A h \in Handlers :
        handlers[h].pc = "error" =>
            /\ num_leaves(handlers[h].tree_after) = num_leaves(handlers[h].tree_before)
            /\ root(handlers[h].tree_after) = root(handlers[h].tree_before)
            /\ leaf(handlers[h].tree_after, handlers[h].index)
                  = leaf(handlers[h].tree_before, handlers[h].index)

\* C5: while no process_failure is due or running, the log's next_index is
\* num_leaves * STRIDE.
C5_NextIndex ==
    worker.pc \in {"idle", "await_turn", "send_tx", "finalize_set",
                   "finalize_index", "finalize_root"} =>
        next_index(log) = num_leaves(tree) * STRIDE

\* C16: a job whose on_job has returned keeps its terminal status: it reads
\* Completed or Failed, never Pending or InProgress again.
C16_StatusForward ==
    \A id \in hist.returned : job_status(status, id) \in {"Completed", "Failed"}

\* C17: the consumer starts the jobs in increasing id order.
C17_IdOrder ==
    \A i, j \in 1..Len(hist.started) : i < j => hist.started[i] < hist.started[j]

\* C18: cancel_jobs_after(id) sets the status of every job in the queue with
\* a greater id to Failed, keeps the status of every job with an id <= id,
\* and keeps the queue.
C18_CancelFrame ==
    [][(worker.pc = "pf_cancel" /\ worker'.pc = "pf_done") =>
          /\ jobs' = jobs
          /\ \A i \in 1..Len(jobs) :
                jobs[i].id > worker.job.id => job_status(status', jobs[i].id) = "Failed"
          /\ \A id \in 1..job_counter :
                id <= worker.job.id => job_status(status', id) = job_status(status, id)]_vars

\* C18 witness: cancel_jobs_after has run with a later job in the queue.
C18_Witness ==
    /\ worker.pc = "pf_done"
    /\ worker.pf_ok
    /\ \E i \in 1..Len(jobs) :
          /\ jobs[i].id > worker.job.id
          /\ job_status(status, jobs[i].id) = "Failed"
    /\ \E id \in DOMAIN status : id < worker.job.id

\* C19: when process_job returns Ok for a job with commit index n, the log
\* row at n * STRIDE holds the hash send_tx returned and the job's
\* out_commit, pool_index = (n + 1) * STRIDE and pool_root = its root_after.
C19_Finalized ==
    [][(worker.pc = "finalize_root" /\ worker'.pc = "idle") =>
          LET d == worker.job.data IN
          /\ get(log', d.next_commit_index * STRIDE) # None
          /\ get(log', d.next_commit_index * STRIDE).tx_hash = worker.tx_hash
          /\ get(log', d.next_commit_index * STRIDE).out_commit = d.tx.out_commit
          /\ pool_index' = (d.next_commit_index + 1) * STRIDE
          /\ pool_root' = d.tree_pub.root_after]_vars

-----------------------------------------------------------------------------
(* The tree engine on its own: add_leaf and rollback calls on an opened tree *)

\* The values the variables of the other components keep while unused.
IdleQueue ==
    /\ jobs = <<>>
    /\ job_counter = 0
    /\ status = EmptyMap
    /\ job_mapping = EmptyMap

IdleTasks ==
    /\ handlers = EmptyMap
    /\ worker = [pc |-> "off"]

IdleChain == chain = [pool_index |-> 0, txs |-> <<>>]

InitTree ==
    /\ tree = open_tree
    /\ log = open_log
    /\ pool_index = 0
    /\ pool_root = default_nodes(0)
    /\ IdleQueue
    /\ IdleTasks
    /\ IdleChain
    /\ hist = [leaves |-> <<>>, appends_only |-> TRUE, last |-> [op |-> "open"]]

\* tree.add_leaf(hash)
TreeAddLeaf(hash) ==
    /\ num_leaves(tree) < MaxLeaves
    /\ num_leaves(tree) + 1 < Pow2(H)
    /\ tree' = add_leaf(tree, hash)
    /\ hist' = [leaves |-> Append(hist.leaves, hash),
                appends_only |-> hist.appends_only,
                last |-> [op |-> "add_leaf", arg |-> hash, ok |-> TRUE,
                          pre_num_leaves |-> num_leaves(tree), pre_leaves |-> hist.leaves,
                          pre_appends_only |-> hist.appends_only]]
    /\ UNCHANGED <<log, pool_index, pool_root, jobs, job_counter, status,
                   job_mapping, handlers, worker, chain>>

\* tree.rollback(index), successful or not
TreeRollback(index) ==
    LET r == rollback(tree, index) IN
    /\ tree' = r.tree
    /\ hist' = [leaves |-> IF r.ok THEN SubSeq(hist.leaves, 1, Min(index, Len(hist.leaves)))
                                   ELSE hist.leaves,
                appends_only |-> FALSE,
                last |-> [op |-> "rollback", arg |-> index, ok |-> r.ok,
                          pre_num_leaves |-> num_leaves(tree), pre_leaves |-> hist.leaves,
                          pre_appends_only |-> hist.appends_only]]
    /\ UNCHANGED <<log, pool_index, pool_root, jobs, job_counter, status,
                   job_mapping, handlers, worker, chain>>

NextTree ==
    \/ \E hash \in LeafVals : TreeAddLeaf(hash)
    \/ \E index \in 0..(MaxLeaves + 1) : TreeRollback(index)

SpecTree == InitTree /\ [][NextTree]_vars

-----------------------------------------------------------------------------
(* Properties of the tree engine *)

\* C7: for any sequence s of commitments and any k with 0 <= k <= |s|,
\* appending all of s to an empty tree and then calling rollback(k) succeeds
\* and leaves root() equal to the root of s[..k], with num_leaves = k.
C7_RollbackInvertsAppend ==
    (hist.last.op = "rollback" /\ hist.last.pre_appends_only
        /\ hist.last.arg <= Len(hist.last.pre_leaves))
    => /\ hist.last.ok
       /\ root(tree) = RefRoot(SubSeq(hist.last.pre_leaves, 1, hist.last.arg))
       /\ num_leaves(tree) = hist.last.arg

\* C8: after any sequence of add_leaf and successful rollback calls, for every
\* k with 0 <= k <= num_leaves, historic_root(k) is the root of the tree that
\* holds exactly the first k current leaves (the default root for k = 0).
C8_HistoricRoots ==
    \A k \in 0..num_leaves(tree) :
        historic_root(tree, k) = RefRoot(SubSeq(TreeLeaves(tree), 1, k))

\* C9: for every leaf index i < num_leaves, folding leaf(i) bottom-up with the
\* H siblings of zp_merkle_proof(i), each pair ordered by the corresponding
\* path entry (under either reading of the path's order and polarity),
\* reproduces root().
C9_ProofRoundtrip ==
    \A i \in 0..(num_leaves(tree) - 1) :
        LET p == zp_merkle_proof(tree, i) IN
        \E path \in {p.path, Reverse(p.path), Negate(p.path), Negate(Reverse(p.path))} :
            Fold(leaf(tree, i), p.sibling, path, 1) = root(tree)

\* C10: add_leaf(h) on a tree with n leaves yields num_leaves = n+1,
\* leaf(n) = h, historic_root(n+1) = root(), and root() equal to the reference
\* Merkle root of the whole leaf sequence.
C10_AddLeafPostcondition ==
    hist.last.op = "add_leaf"
    => /\ num_leaves(tree) = hist.last.pre_num_leaves + 1
       /\ leaf(tree, hist.last.pre_num_leaves) = hist.last.arg
       /\ historic_root(tree, num_leaves(tree)) = root(tree)
       /\ root(tree) = RefRoot(hist.leaves)
       /\ TreeLeaves(tree) = hist.leaves

\* C10 witness: an append onto a non-empty tree after an earlier rollback.
C10_Witness ==
    /\ hist.last.op = "add_leaf"
    /\ ~hist.appends_only
    /\ num_leaves(tree) >= 3

\* C14: after a successful rollback(to) on a tree of old_num_leaves leaves,
\* every leaf with index >= to reads as the default leaf, num_leaves = to,
\* historic_root(k) is None for every k > to and historic_root(to) is present.
C14_RollbackEffect ==
    (hist.last.op = "rollback" /\ hist.last.ok) =>
        LET to == hist.last.arg IN
        /\ \A i \in to..(Pow2(H) - 1) : leaf(tree, i) = default_nodes(H)
        /\ num_leaves(tree) = to
        /\ \A k \in (to + 1)..(MaxLeaves + 1) : historic_root(tree, k) = None
        /\ historic_root(tree, to) # None

\* C15: rollback(to) with to > num_leaves returns an error and leaves the
\* nodes, num_leaves and the historic roots unchanged; rollback(0) succeeds
\* and leaves an empty tree whose root() is the depth-0 default.
C15_RollbackErrors ==
    [][hist'.last.op = "rollback" =>
          /\ hist'.last.arg > num_leaves(tree) =>
                (~hist'.last.ok /\ tree' = tree)
          /\ hist'.last.arg = 0 =>
                /\ hist'.last.ok
                /\ num_leaves(tree') = 0
                /\ root(tree') = default_nodes(0)
                /\ \A i \in 0..(Pow2(H) - 1) : leaf(tree', i) = default_nodes(H)]_vars

\* C15 witness: a rejected rollback beyond the end of a non-empty tree.
C15_Witness ==
    /\ hist.last.op = "rollback"
    /\ ~hist.last.ok
    /\ hist.last.arg > hist.last.pre_num_leaves
    /\ hist.last.pre_num_leaves >= 2

-----------------------------------------------------------------------------
(* The transaction log on its own: set and rollback calls on an opened log *)

\* The indices the calls are made with: the multiples of STRIDE and their
\* successors.
LogIndices == {i * STRIDE + d : i \in 0..MaxRows, d \in 0..1}

\* The hashes written: the placeholder and a real one.
LogHashes == {ZeroHash, chain_hash(1)}

InitLog ==
    /\ tree = open_tree
    /\ log = open_log
    /\ pool_index = 0
    /\ pool_root = default_nodes(0)
    /\ IdleQueue
    /\ IdleTasks
    /\ IdleChain
    /\ hist = [sets_only |-> TRUE, last |-> [op |-> "open"]]

\* transactions.set(index, out_commit, tx_hash, memo), accepted or rejected
LogSet(index, tx_hash) ==
    LET r == set(log, index, <<1>>, tx_hash, 0) IN
    /\ log' = r.log
    /\ hist' = [sets_only |-> hist.sets_only,
                last |-> [op |-> "set", arg |-> index, ok |-> r.ok,
                          row |-> [out_commit |-> <<1>>, tx_hash |-> tx_hash, memo |-> 0],
                          pre_next_index |-> next_index(log)]]
    /\ UNCHANGED <<tree, pool_index, pool_root, jobs, job_counter, status,
                   job_mapping, handlers, worker, chain>>

\* transactions.rollback(index)
LogRollback(index) ==
    /\ log' = tx_rollback(log, index)
    /\ hist' = [sets_only |-> FALSE,
                last |-> [op |-> "rollback", arg |-> index, ok |-> TRUE,
                          pre_next_index |-> next_index(log)]]
    /\ UNCHANGED <<tree, pool_index, pool_root, jobs, job_counter, status,
                   job_mapping, handlers, worker, chain>>

NextLog ==
    \/ \E index \in LogIndices, tx_hash \in LogHashes : LogSet(index, tx_hash)
    \/ \E index \in LogIndices : LogRollback(index)

SpecLog == InitLog /\ [][NextLog]_vars

-----------------------------------------------------------------------------
(* Properties of the transaction log *)

\* The stored indices, in increasing order, are 0, STRIDE, 2 * STRIDE, ...
GapFree(l) ==
    DOMAIN l.keys = {i * STRIDE : i \in 0..(Cardinality(DOMAIN l.keys) - 1)}

\* C11: after any series of set calls on an opened log, accepted or rejected,
\* the stored indices are the multiples of STRIDE from 0 without a gap, and
\* next_index is the last stored index plus STRIDE; a set call whose index is
\* not a multiple of STRIDE was rejected.
C11_LogMonotonic ==
    hist.sets_only =>
        /\ GapFree(log)
        /\ next_index(log) = Cardinality(DOMAIN log.keys) * STRIDE
        /\ (hist.last.op = "set" /\ hist.last.arg % STRIDE # 0) => ~hist.last.ok

C13_LogRollback ==
    [][hist'.last.op = "rollback" =>
          LET from == hist'.last.arg IN
          /\ \A k \in LogIndices \cup DOMAIN log.keys \cup DOMAIN log'.keys :
                get(log', k) = IF k >= from THEN None ELSE get(log, k)
          /\ next_index(log') = from]_vars

\* C13 witness: a rollback that removed rows and kept rows.
C13_Witness ==
    /\ hist.last.op = "rollback"
    /\ hist.last.arg < hist.last.pre_next_index - STRIDE
    /\ DOMAIN log.keys # {}

-----------------------------------------------------------------------------
(* state.rs: boot reconciliation *)

TX_INDEX_STRIDE == STRIDE

\* What an earlier run left on disk after accepting the commitments s: the
\* tree after the add_leaf calls and the log after the writes at i * STRIDE,
\* the first `mined` rows finalized with the hash the chain returned and the
\* rows after them still placeholders.
RECURSIVE LocalTree(_)
LocalTree(s) ==
    IF s = <<>> THEN open_tree
    ELSE add_leaf(LocalTree(SubSeq(s, 1, Len(s) - 1)), s[Len(s)])

RECURSIVE LocalLog(_, _)
LocalLog(s, mined) ==
    IF s = <<>> THEN open_log
    ELSE set(LocalLog(SubSeq(s, 1, Len(s) - 1), mined), (Len(s) - 1) * STRIDE,
             s[Len(s)], IF Len(s) <= mined THEN chain_hash(Len(s)) ELSE ZeroHash,
             0).log

\* The pool contract's history holding the commitments s.
ChainOf(s) ==
    [pool_index |-> Len(s) * STRIDE,
     txs |-> [i \in 1..Len(s) |-> [hash |-> chain_hash(i), out_commit |-> s[i]]]]

\* backend.get_merkle_root(pool_index)
get_merkle_root(c) == RefRoot([i \in 1..Len(c.txs) |-> c.txs[i].out_commit])

\* backend.fetch_latest_transactions(): the lists the call can return, every
\* confirmed transaction since genesis in order, one of them possibly twice
\* (the pages are fetched one by one from a live index).
fetch_latest_transactions(c) ==
    {c.txs} \cup
    {SubSeq(c.txs, 1, k) \o SubSeq(c.txs, k, Len(c.txs)) : k \in 1..Len(c.txs)}

LeafSeqs(n) == UNION {[1..k -> LeafVals] : k \in 0..n}

IsPrefix(a, b) == Len(a) <= Len(b) /\ SubSeq(b, 1, Len(a)) = a

\* The relayer starts on the disk state of an earlier run: the pool's history
\* or a part of it, or the whole history and optimistic leaves beyond it.
InitBoot ==
    /\ \E onchain \in LeafSeqs(MaxChain), local \in LeafSeqs(MaxLeaves) :
          /\ IsPrefix(local, onchain) \/ IsPrefix(onchain, local)
          /\ tree = LocalTree(local)
          /\ log = LocalLog(local, Len(onchain))
          /\ chain = ChainOf(onchain)
          /\ hist = [local |-> local, fetched |-> None]
    /\ pool_index = 0
    /\ pool_root = default_nodes(0)
    /\ IdleQueue
    /\ handlers = EmptyMap
    /\ worker = [pc |-> "init"]

\* AppState::init: open the stores, read the pool's index and root, compare
InitRead ==
    /\ worker.pc = "init"
    /\ pool_index' = chain.pool_index
    /\ pool_root' = get_merkle_root(chain)
    /\ LET relayer_index == num_leaves(tree) * TX_INDEX_STRIDE IN
        worker' = [pc |-> IF relayer_index > chain.pool_index THEN "init_corrupted"
                          ELSE IF relayer_index < chain.pool_index THEN "init_fetch"
                          ELSE "init_done",
                   relayer_index |-> relayer_index]
    /\ UNCHANGED <<tree, log, jobs, job_counter, status, job_mapping, handlers,
                   chain, hist>>

\* AppState::init: relayer_index > pool_index
InitCorrupted ==
    /\ worker.pc = "init_corrupted"
    /\ log' = open_log
    /\ tree' = open_tree
    /\ worker' = [pc |-> "init_done", relayer_index |-> 0]
    /\ UNCHANGED <<pool_index, pool_root, jobs, job_counter, status, job_mapping,
                   handlers, chain, hist>>

\* AppState::init: relayer_index < pool_index: fetch
InitFetch ==
    /\ worker.pc = "init_fetch"
    /\ \E all_txs \in fetch_latest_transactions(chain) :
          /\ worker' = [pc |-> "init_replay", relayer_index |-> worker.relayer_index,
                        all_txs |-> all_txs, i |-> 0]
          /\ hist' = [hist EXCEPT !.fetched = all_txs]
    /\ UNCHANGED <<tree, log, pool_index, pool_root, jobs, job_counter, status,
                   job_mapping, handlers, chain>>

\* AppState::init: one iteration of the replay loop, or its end
InitReplay ==
    /\ worker.pc = "init_replay"
    /\ LET i == worker.i
           tx_index == i * TX_INDEX_STRIDE
       IN  IF i >= Len(worker.all_txs)
           THEN /\ worker' = [pc |-> "init_done",
                              relayer_index |-> num_leaves(tree) * TX_INDEX_STRIDE]
                /\ UNCHANGED <<tree, log>>
           ELSE IF tx_index < worker.relayer_index
           THEN /\ worker' = [worker EXCEPT !.i = i + 1]
                /\ UNCHANGED <<tree, log>>
           ELSE LET tx == worker.all_txs[i + 1]
                    r == set(log, tx_index, tx.out_commit, tx.hash, 0)
                IN  /\ tree' = add_leaf(tree, tx.out_commit)
                    /\ log' = r.log
                    /\ worker' = IF r.ok THEN [worker EXCEPT !.i = i + 1]
                                         ELSE [pc |-> "init_err"]
    /\ UNCHANGED <<pool_index, pool_root, jobs, job_counter, status, job_mapping,
                   handlers, chain, hist>>

NextBoot ==
    \/ InitRead
    \/ InitCorrupted
    \/ InitFetch
    \/ InitReplay

SpecBoot == InitBoot /\ [][NextBoot]_vars

\* C6: when AppState::init has finished, num_leaves * STRIDE is the pool_index
\* read from the backend, whichever of the three cases applied.
C6_BootReconciled ==
    worker.pc = "init_done" => num_leaves(tree) * STRIDE = pool_index

-----------------------------------------------------------------------------
(* json_api.rs: validate_tx *)

\* ReadBytesExt::read_u64::<BigEndian>: the value of the first 8 bytes, or
\* None when fewer are left.
RECURSIVE be_value(_, _, _)
be_value(bytes, i, acc) ==
    IF i > 8 THEN acc ELSE be_value(bytes, i + 1, acc * 256 + bytes[i])

read_u64(bytes) == IF Len(bytes) < 8 THEN None ELSE <<be_value(bytes, 1, 0)>>

\* U256::unchecked_shr
unchecked_shr(x, n) == x \div Pow2(n)

\* A validator that lets every Withdraw pass the cross-check.
invalid_values_withdraw_free(req) ==
    CASE req.tx_type = "Deposit" -> req.energy_amount # 0
      [] req.tx_type = "Transfer" -> req.token_amount # 0 \/ req.energy_amount # 0
      [] req.tx_type = "Withdraw" -> FALSE

\* The match on tx_type at the end of validate_tx: TRUE when it pushes
\* InvalidValues.
invalid_values(req) ==
    LET token_amount == req.token_amount
        energy_amount == req.energy_amount
        is_token_amount_negative == unchecked_shr(token_amount, UintBits - 1) # 0
        is_token_amount_positive == ~is_token_amount_negative /\ token_amount # 0
        is_energy_amount_positive ==
            unchecked_shr(energy_amount, UintBits - 1) = 0 /\ energy_amount # 0
    IN  CASE req.tx_type = "Deposit" -> is_token_amount_negative \/ energy_amount # 0
          [] req.tx_type = "Transfer" -> token_amount # 0 \/ energy_amount # 0
          [] req.tx_type = "Withdraw" ->
                is_token_amount_positive \/ is_energy_amount_positive

\* The errors validate_tx pushes after the fee was read.
validate_rest(req, fee, config_fee, cur_pool_index, errors0) ==
    LET errors1 == IF fee < config_fee THEN Append(errors0, "FeeTooLow") ELSE errors0
        errors2 == IF req.transfer_index > cur_pool_index
                   THEN Append(errors1, "InvalidTxIndex") ELSE errors1
    IN  IF invalid_values(req) THEN Append(errors2, "InvalidValues") ELSE errors2

\* The same part of validate_tx in relayer-server/src/json_api.rs, which
\* compares the transfer index with < .
validate_rest_server(req, fee, config_fee, cur_pool_index, errors0) ==
    LET errors1 == IF fee < config_fee THEN Append(errors0, "FeeTooLow") ELSE errors0
        errors2 == IF req.transfer_index < cur_pool_index
                   THEN Append(errors1, "InvalidTxIndex") ELSE errors1
    IN  IF invalid_values(req) THEN Append(errors2, "InvalidValues") ELSE errors2

\* validate_tx: the error list, or the panic of unwrap() on a failed read.
validate_tx(req, config_fee, cur_pool_index) ==
    LET errors0 == IF ~req.proof_valid THEN <<"InvalidTransferProof">> ELSE <<>>
        errors1 == IF Len(req.memo) < 8 THEN Append(errors0, "EmptyMemo") ELSE errors0
        fee == read_u64(req.memo)
    IN  IF fee = None THEN [pc |-> "panicked", req |-> req]
        ELSE [pc |-> "validated", req |-> req,
              errors |-> validate_rest(req, fee[1], config_fee, cur_pool_index, errors1)]

\* validate_tx of relayer-server/src/json_api.rs.
validate_tx_server(req, config_fee, cur_pool_index) ==
    LET errors0 == IF ~req.proof_valid THEN <<"InvalidTransferProof">> ELSE <<>>
        errors1 == IF Len(req.memo) < 8 THEN Append(errors0, "EmptyMemo") ELSE errors0
        fee == read_u64(req.memo)
    IN  IF fee = None THEN [pc |-> "panicked", req |-> req]
        ELSE [pc |-> "validated_server", req |-> req,
              errors |-> validate_rest_server(req, fee[1], config_fee, cur_pool_index,
                                              errors1)]

\* A handler that goes on whatever the validators reported.
is_empty_ignored(errors) == TRUE

\* Vec::is_empty on the accumulated validation errors.
is_empty(errors) == errors = <<>>

\* The ParsedTxData create_transaction builds from the request.
parsed_tx(req) == [out_commit |-> <<1>>, memo |-> req.memo]

\* The fee the relayer is configured with.
ConfigFee == 1

Zeros(n) == [i \in 1..n |-> 0]

\* Memos of 0, 7, 8 and 9 bytes, the fee below and above the configured one.
Memos == {<<>>, Zeros(7), Zeros(8), Append(Zeros(7), 2), Append(Append(Zeros(7), 2), 5)}

\* Amounts as to_uint() returns them: zero, a small value, the field's
\* negative of a small value.
Amounts == {0, 1, Pow2(FrBits) - 1}

Requests ==
    [proof_valid : BOOLEAN, memo : Memos, tx_type : {"Deposit", "Transfer", "Withdraw"},
     token_amount : Amounts, energy_amount : Amounts,
     transfer_index : {0, STRIDE, 2 * STRIDE}]

\* The stores and the pool index a request can find: nothing yet, one
\* transaction prepared, one transaction mined.
StoresBefore ==
    LET t1 == add_leaf(open_tree, <<2>>)
        placeholder == push(open_log, 0, <<2>>, ZeroHash, 0).log
        mined == set(placeholder, 0, <<2>>, chain_hash(1), 0).log
    IN  {[tree |-> open_tree, log |-> open_log, pool_index |-> 0,
          pool_root |-> default_nodes(0)],
         [tree |-> t1, log |-> placeholder, pool_index |-> 0,
          pool_root |-> default_nodes(0)],
         [tree |-> t1, log |-> mined, pool_index |-> STRIDE, pool_root |-> root(t1)]}

InitValidate ==
    /\ \E s \in StoresBefore :
          /\ tree = s.tree
          /\ log = s.log
          /\ pool_index = s.pool_index
          /\ pool_root = s.pool_root
    /\ IdleQueue
    /\ handlers \in {<<[pc |-> "request", req |-> r]>> : r \in Requests}
    /\ worker = [pc |-> "off"]
    /\ IdleChain
    /\ hist = [last |-> [op |-> "open"]]

\* create_transaction: validate_tx(&tx_data, state)
ValidateTx ==
    /\ handlers[1].pc = "request"
    /\ handlers' = <<validate_tx(handlers[1].req, ConfigFee, pool_index)>>
    /\ hist' = [last |-> [op |-> "validate_tx"]]
    /\ UNCHANGED <<tree, log, pool_index, pool_root, jobs, job_counter, status,
                   job_mapping, worker, chain>>

\* create_transaction of relayer-server: validate_tx(&tx_data, state)
ValidateTxServer ==
    /\ handlers[1].pc = "request"
    /\ handlers' = <<validate_tx_server(handlers[1].req, ConfigFee, pool_index)>>
    /\ hist' = [last |-> [op |-> "validate_tx_server"]]
    /\ UNCHANGED <<tree, log, pool_index, pool_root, jobs, job_counter, status,
                   job_mapping, worker, chain>>

\* create_transaction: validation_errors.extend(state.backend.validate_tx(&tx))
BackendValidateTx(backend_errors) ==
    /\ handlers[1].pc = "validated"
    /\ handlers' = <<[handlers[1] EXCEPT !.pc = "checked",
                                         !.errors = @ \o backend_errors]>>
    /\ hist' = [last |-> [op |-> "backend_validate_tx"]]
    /\ UNCHANGED <<tree, log, pool_index, pool_root, jobs, job_counter, status,
                   job_mapping, worker, chain>>

\* create_transaction: if !validation_errors.is_empty() { return Err(..) }
CreateReject ==
    /\ handlers[1].pc = "checked"
    /\ ~is_empty(handlers[1].errors)
    /\ handlers' = <<[handlers[1] EXCEPT !.pc = "rejected"]>>
    /\ hist' = [last |-> [op |-> "reject"]]
    /\ UNCHANGED <<tree, log, pool_index, pool_root, jobs, job_counter, status,
                   job_mapping, worker, chain>>

\* create_transaction: prepare_job(tx, state.clone()).await?
CreatePrepare ==
    /\ handlers[1].pc = "checked"
    /\ is_empty(handlers[1].errors)
    /\ LET r == prepare_job(tree, log, parsed_tx(handlers[1].req), 1) IN
        /\ tree' = r.tree
        /\ log' = r.log
        /\ handlers' = <<[handlers[1] EXCEPT !.pc = IF r.ok THEN "prepared" ELSE "error"]
                         @@ [payload |-> r.payload]>>
    /\ hist' = [last |-> [op |-> "prepare_job"]]
    /\ UNCHANGED <<pool_index, pool_root, jobs, job_counter, status, job_mapping,
                   worker, chain>>

NextValidate ==
    \/ ValidateTx
    \/ ValidateTxServer
    \/ \E backend_errors \in {<<>>, <<"InsufficientBalance">>} :
          BackendValidateTx(backend_errors)
    \/ CreateReject
    \/ CreatePrepare
    \/ PushIncr(1)
    \/ PushRpush(1)
    \/ PushSetPending(1)

SpecValidate == InitValidate /\ [][NextValidate]_vars

ToSet(seq) == {seq[i] : i \in 1..Len(seq)}

\* C20: validating a request whose memo is shorter than 8 bytes returns an
\* error list that contains EmptyMemo.
C20_ShortMemo ==
    (handlers # EmptyMap /\ handlers[1].pc # "request" /\ Len(handlers[1].req.memo) < 8) =>
        /\ handlers[1].pc # "panicked"
        /\ "EmptyMemo" \in ToSet(handlers[1].errors)

\* The handler has an error list: validate_tx returned.
Returned == handlers # EmptyMap /\ "errors" \in DOMAIN handlers[1]

\* C21: a validator that returns reports InvalidTxIndex exactly when the
\* request's transfer_index is strictly greater than pool_index.
C21_InvalidTxIndex ==
    Returned =>
        ("InvalidTxIndex" \in ToSet(handlers[1].errors)
            <=> handlers[1].req.transfer_index > pool_index)

\* An amount read as signed, the sign bit being the top bit of the word.
Signed(x) == IF unchecked_shr(x, UintBits - 1) # 0 THEN x - Pow2(UintBits) ELSE x

\* The rule between the transaction type and the amounts of the delta.
DeltaRule(req) ==
    CASE req.tx_type = "Deposit" ->
            Signed(req.token_amount) >= 0 /\ Signed(req.energy_amount) = 0
      [] req.tx_type = "Transfer" ->
            Signed(req.token_amount) = 0 /\ Signed(req.energy_amount) = 0
      [] req.tx_type = "Withdraw" ->
            Signed(req.token_amount) <= 0 /\ Signed(req.energy_amount) <= 0

\* C22: a validator that returns reports InvalidValues exactly when the rule
\* between the transaction type and the signed amounts is broken.
C22_InvalidValues ==
    Returned =>
        ("InvalidValues" \in ToSet(handlers[1].errors) <=> ~DeltaRule(handlers[1].req))

\* A Withdraw of a positive token amount was validated and reported.
C22_Witness ==
    /\ Returned
    /\ handlers[1].req.tx_type = "Withdraw"
    /\ handlers[1].req.token_amount = 1
    /\ handlers[1].req.energy_amount = 0
    /\ "InvalidValues" \in ToSet(handlers[1].errors)

\* C29: a step of create_transaction that changes the tree, the log,
\* pool_index, pool_root or the job queue is taken only by a handler whose
\* accumulated error list is empty; a request with errors ends rejected.
C29_RejectedCreatesNothing ==
    [][ /\ (<<tree, log, pool_index, pool_root, jobs, job_counter, status,
              job_mapping>>' # <<tree, log, pool_index, pool_root, jobs, job_counter,
                                 status, job_mapping>>
            => /\ handlers[1].pc \in {"checked", "prepared", "incremented", "queued"}
               /\ handlers[1].errors = <<>>)
        /\ (handlers'[1].pc \in {"prepared", "error"} /\ handlers[1].pc = "checked"
            => handlers[1].errors = <<>>) ]_vars

\* A request whose validation reported two errors was rejected, after an
\* earlier transaction had been prepared.
C29_Witness ==
    /\ handlers # EmptyMap
    /\ handlers[1].pc = "rejected"
    /\ Len(handlers[1].errors) >= 2
    /\ num_leaves(tree) = 1

\* AppState::init took the replay branch and has finished.
Replayed == worker.pc = "init_done" /\ hist.fetched # None

\* The commitments of the pool's history.
ChainCommits == [i \in 1..Len(chain.txs) |-> chain.txs[i].out_commit]

\* C23: after the replay branch the leaves and rows that existed before are
\* unchanged, and every position j of the pool's history has the
\* transaction's commitment as leaf j and its chain hash in row j * STRIDE,
\* nothing being applied twice.
C23_ReplayFillsGap ==
    Replayed =>
        /\ \A j \in 0..(Len(hist.local) - 1) :
              /\ leaf(tree, j) = hist.local[j + 1]
              /\ get(log, j * STRIDE)
                    = get(LocalLog(hist.local, Len(chain.txs)), j * STRIDE)
        /\ \A j \in 0..(Len(chain.txs) - 1) :
              /\ leaf(tree, j) = chain.txs[j + 1].out_commit
              /\ get(log, j * STRIDE) # None
              /\ get(log, j * STRIDE).tx_hash = chain.txs[j + 1].hash
        /\ num_leaves(tree) = Len(chain.txs)

\* C24: whatever list the backend returned, duplicates included, the replay
\* branch ends with the tree and the log of the duplicate-free history.
C24_ReplayDeduplicates ==
    Replayed =>
        /\ tree = LocalTree(ChainCommits)
        /\ log = LocalLog(ChainCommits, Len(chain.txs))

-----------------------------------------------------------------------------
(* The tree engine near and at its capacity of 2^H leaves *)

\* The leaves of a tree one short of its capacity.
NearlyFull == [i \in 1..(Pow2(H) - 1) |-> <<1>>]

InitTreeFull ==
    /\ tree = LocalTree(NearlyFull)
    /\ log = open_log
    /\ pool_index = 0
    /\ pool_root = default_nodes(0)
    /\ IdleQueue
    /\ IdleTasks
    /\ IdleChain
    /\ hist = [leaves |-> NearlyFull, appends_only |-> TRUE, last |-> [op |-> "open"]]

\* tree.add_leaf(hash) on a tree that has room for the leaf
TreeFill(hash) ==
    /\ num_leaves(tree) >= Pow2(H) - FillDepth
    /\ num_leaves(tree) < Pow2(H)
    /\ tree' = add_leaf(tree, hash)
    /\ hist' = [leaves |-> Append(hist.leaves, hash),
                appends_only |-> hist.appends_only,
                last |-> [op |-> "add_leaf", arg |-> hash, ok |-> TRUE,
                          pre_num_leaves |-> num_leaves(tree), pre_leaves |-> hist.leaves,
                          pre_appends_only |-> hist.appends_only]]
    /\ UNCHANGED <<log, pool_index, pool_root, jobs, job_counter, status,
                   job_mapping, handlers, worker, chain>>

NextTreeFull ==
    \/ \E hash \in LeafVals : TreeFill(hash)
    \/ \E index \in 0..Pow2(H) : TreeRollback(index)

SpecTreeFull == InitTreeFull /\ [][NextTreeFull]_vars

\* The node the tree reads at (depth, index): the stored one or the default.
NodeOrDefault(t, depth, index) ==
    unwrap_or(get_tx(t.nodes, depth, index), default_nodes(depth))

\* C25: every stored inner node at depth d is the hash of its two children
\* at depth d + 1, each the stored value or the default of depth d + 1.
C25_InnerNodesHashChildren ==
    \A d \in 0..(H - 1) : \A i \in 0..(Pow2(d) - 1) :
        get_tx(tree.nodes, d, i) # None =>
            get_tx(tree.nodes, d, i)
                = poseidon(NodeOrDefault(tree, d + 1, 2 * i),
                           NodeOrDefault(tree, d + 1, 2 * i + 1))

\* The column of the last leaf's ancestor at `depth`, -1 in an empty tree.
LastColumn(t, depth) ==
    IF t.num_leaves = 0 THEN -1 ELSE (t.num_leaves - 1) \div Pow2(H - depth)

\* C26: no stored inner node holds the default of its depth, and no node is
\* stored at a column beyond the last leaf's ancestor at that depth.
C26_NoDefaultNoBeyond ==
    /\ \A d \in 0..(H - 1) : \A i \in 0..(Pow2(d) - 1) :
          get_tx(tree.nodes, d, i) # default_nodes(d)
    /\ \A d \in 0..H : \A i \in 0..(Pow2(d) - 1) :
          get_tx(tree.nodes, d, i) # None => i <= LastColumn(tree, d)
    /\ DOMAIN tree.nodes \subseteq 0..(Pow2(H + 1) - 2)

\* A rollback to a non-empty tree has removed at least two leaves.
C26_Witness ==
    /\ hist.last.op = "rollback"
    /\ hist.last.ok
    /\ hist.last.arg >= 1
    /\ hist.last.pre_num_leaves >= hist.last.arg + 2
    /\ num_leaves(tree) = hist.last.arg

-----------------------------------------------------------------------------
(* The cascade after a failure: process_failure of the failed job, then of
   the jobs cancel_jobs_after marked *)

\* The job of the i-th request prepared on the commitments s, the jobs being
\* pushed in the order they were prepared.
job_of(s, i) ==
    [id |-> i,
     data |-> [tx |-> [out_commit |-> s[i], memo |-> 0],
               next_commit_index |-> i - 1,
               prev_commit_index |-> saturating_sub(i - 1, 1),
               seq |-> i]]

\* Len(s) requests were prepared and pushed, the first `mined` jobs were
\* sent and finalized, and send_tx has just failed for the next one: the
\* consumer is about to run its process_failure, the later jobs are queued.
InitCascade ==
    /\ \E s \in LeafSeqs(MaxLeaves) : \E mined \in 0..(Len(s) - 2) :
          /\ tree = LocalTree(s)
          /\ log = LocalLog(s, mined)
          /\ pool_index = mined * STRIDE
          /\ pool_root = root(LocalTree(SubSeq(s, 1, mined)))
          /\ jobs = [k \in 1..(Len(s) - mined - 1) |-> job_of(s, mined + 1 + k)]
          /\ job_counter = Len(s)
          /\ status = [i \in 1..Len(s) |->
                         IF i <= mined THEN "Completed"
                         ELSE IF i = mined + 1 THEN "Failed" ELSE "Pending"]
          /\ job_mapping = [i \in 0..mined |-> i + 1]
          /\ worker = [pc |-> on_failure_pc, job |-> job_of(s, mined + 1)]
          /\ chain = ChainOf(SubSeq(s, 1, mined))
          /\ hist = [seq |-> Len(s), failures |-> {}]
    /\ handlers = EmptyMap

\* JobQueue::start for a job cancel_jobs_after has marked: blpop, set
\* InProgress; process_job returns Err("Job cancelled") from its wait loop;
\* set Failed, run on_failure.
CancelledJobErr ==
    /\ worker.pc = "idle"
    /\ jobs # <<>>
    /\ is_job_cancelled(status, Head(jobs).id)
    /\ jobs' = Tail(jobs)
    /\ job_mapping' = Put(job_mapping, Head(jobs).data.next_commit_index, Head(jobs).id)
    /\ status' = Put(status, Head(jobs).id, "Failed")
    /\ worker' = [pc |-> on_failure_pc, job |-> Head(jobs), cancelled |-> TRUE]
    /\ UNCHANGED <<tree, log, pool_index, pool_root, job_counter, handlers, chain, hist>>

NextCascade ==
    \/ PfLogRollback
    \/ PfTreeRollback
    \/ PfCancel
    \/ WorkerLoop
    \/ CancelledJobErr

SpecCascade == InitCascade /\ [][NextCascade]_vars

\* The consumer is running process_failure for a job that was cancelled.
InCancelledFailure ==
    worker.pc \in {"pf_log", "pf_tree", "pf_cancel"} /\ "cancelled" \in DOMAIN worker

\* C27: each step of the process_failure of a cancelled job leaves the
\* tree's leaves, num_leaves and root and the log's rows and next_index as
\* they were, and the call does not end with an error.
C27_CancelledFailureNoop ==
    [][InCancelledFailure =>
          /\ TreeLeaves(tree') = TreeLeaves(tree)
          /\ num_leaves(tree') = num_leaves(tree)
          /\ root(tree') = root(tree)
          /\ log'.keys = log.keys
          /\ next_index(log') = next_index(log)
          /\ (worker'.pc = "pf_done" => worker'.pf_ok)]_vars

-----------------------------------------------------------------------------
(* Properties of the pool index and of the /info handler *)

\* C28: pool_index is a multiple of STRIDE in every state, and a step that
\* changes it is the consumer's finalizing step and adds exactly STRIDE.
C28_PoolIndexSteps ==
    [][/\ pool_index' % STRIDE = 0
       /\ (pool_index' # pool_index =>
             /\ worker.pc = "finalize_index"
             /\ pool_index' = pool_index + STRIDE)]_vars

\* Two jobs have been finalized.
C28_Witness == pool_index = 2 * STRIDE /\ worker.pc = "finalize_root"

\* The pipeline with InfoRequests create_transaction requests and one /info
\* request, which is handler 0.  hist.info keeps, for each of the handler's
\* reads, the value the other variable of the pair had at that moment.
InitInfo ==
    /\ tree = open_tree
    /\ log = open_log
    /\ pool_index = 0
    /\ pool_root = default_nodes(0)
    /\ jobs = <<>>
    /\ job_counter = 0
    /\ status = EmptyMap
    /\ job_mapping = EmptyMap
    /\ handlers = [h \in {0} \cup Handlers |->
                      IF h = 0 THEN [pc |-> "info"]
                      ELSE IF h <= InfoRequests THEN [pc |-> "start"]
                      ELSE [pc |-> "off"]]
    /\ worker = [pc |-> "idle"]
    /\ chain = [pool_index |-> 0, txs |-> <<>>]
    /\ hist = [seq |-> 0, sent |-> <<>>, failures |-> {}, started |-> <<>>,
               returned |-> {}, info |-> EmptyMap]

\* info: let pool_index = *state.pool_index.read().await
InfoReadPoolIndex ==
    /\ handlers[0].pc = "info"
    /\ handlers' = [handlers EXCEPT ![0] = [pc |-> "info_root", delta_index |-> pool_index]]
    /\ hist' = [hist EXCEPT !.info = [root_at_index_read |-> pool_root]]
    /\ UNCHANGED <<tree, log, pool_index, pool_root, jobs, job_counter, status,
                   job_mapping, worker, chain>>

\* info: let root = state.pool_root.read().await.to_string()
InfoReadPoolRoot ==
    /\ handlers[0].pc = "info_root"
    /\ handlers' = [handlers EXCEPT ![0] =
                       [@ EXCEPT !.pc = "info_optimistic_root"] @@ [root |-> pool_root]]
    /\ hist' = [hist EXCEPT !.info = @ @@ [index_at_root_read |-> pool_index]]
    /\ UNCHANGED <<tree, log, pool_index, pool_root, jobs, job_counter, status,
                   job_mapping, worker, chain>>

\* info: let optimistic_root = state.tree.lock().await.root()?
InfoReadOptimisticRoot ==
    /\ handlers[0].pc = "info_optimistic_root"
    /\ handlers' = [handlers EXCEPT ![0] =
                       [@ EXCEPT !.pc = "info_optimistic_index"]
                          @@ [optimistic_root |-> root(tree)]]
    /\ hist' = [hist EXCEPT !.info = @ @@ [num_leaves_at_root_read |-> num_leaves(tree)]]
    /\ UNCHANGED <<tree, log, pool_index, pool_root, jobs, job_counter, status,
                   job_mapping, worker, chain>>

\* info: let optimistic_delta_index = state.tree.lock().await.num_leaves() * 128
InfoReadOptimisticIndex ==
    /\ handlers[0].pc = "info_optimistic_index"
    /\ handlers' = [handlers EXCEPT ![0] =
                       [@ EXCEPT !.pc = "info_done"]
                          @@ [optimistic_delta_index |-> num_leaves(tree) * 128]]
    /\ hist' = [hist EXCEPT !.info = @ @@ [root_at_num_leaves_read |-> root(tree)]]
    /\ UNCHANGED <<tree, log, pool_index, pool_root, jobs, job_counter, status,
                   job_mapping, worker, chain>>

NextInfo ==
    \/ Next
    \/ InfoReadPoolIndex
    \/ InfoReadPoolRoot
    \/ InfoReadOptimisticRoot
    \/ InfoReadOptimisticIndex

SpecInfo == InitInfo /\ [][NextInfo]_vars

\* The returned root and deltaIndex were the pool's root and index together
\* at the moment of one of the two reads.
InfoPoolPairConsistent ==
    \/ handlers[0].root = hist.info.root_at_index_read
    \/ handlers[0].delta_index = hist.info.index_at_root_read

\* The returned optimisticRoot and optimisticDeltaIndex were the tree's root
\* and index together at the moment of one of the two reads.
InfoOptimisticPairConsistent ==
    \/ handlers[0].optimistic_delta_index = hist.info.num_leaves_at_root_read * 128
    \/ handlers[0].optimistic_root = hist.info.root_at_num_leaves_read

\* C30: in every /info response each of the two pairs is a snapshot: root
\* with deltaIndex, and optimisticRoot with optimisticDeltaIndex, were the
\* values of one state.
C30_InfoSnapshot ==
    (0 \in DOMAIN handlers /\ handlers[0].pc = "info_done") =>
        InfoPoolPairConsistent /\ InfoOptimisticPairConsistent

-----------------------------------------------------------------------------
(* MerkleTree::add_leaf statement by statement: each of its three store
   transactions commits on its own, or fails and returns the error *)

InitAddLeaf ==
    /\ tree = open_tree
    /\ log = open_log
    /\ pool_index = 0
    /\ pool_root = default_nodes(0)
    /\ IdleQueue
    /\ handlers = EmptyMap
    /\ worker = [pc |-> "caller"]
    /\ IdleChain
    /\ hist = [last |-> [op |-> "open"]]

\* add_leaf: let index = get_num_leaves()?; self.set_node(H, index, hash)?
AddLeafSetNode(hash, committed) ==
    /\ worker.pc = "caller"
    /\ num_leaves(tree) < MaxLeaves
    /\ tree' = IF committed
               THEN [tree EXCEPT !.nodes = set_node(tree.nodes, H, num_leaves(tree), hash)]
               ELSE tree
    /\ worker' = IF committed
                 THEN [pc |-> "set_num_leaves", index |-> num_leaves(tree)]
                 ELSE [pc |-> "returned", ok |-> FALSE]
    /\ UNCHANGED <<log, pool_index, pool_root, jobs, job_counter, status, job_mapping,
                   handlers, chain, hist>>

\* add_leaf: self.nodes.set_num_leaves(index + 1)?
AddLeafSetNumLeaves(committed) ==
    /\ worker.pc = "set_num_leaves"
    /\ tree' = IF committed THEN [tree EXCEPT !.num_leaves = worker.index + 1] ELSE tree
    /\ worker' = IF committed THEN [worker EXCEPT !.pc = "add_root"]
                 ELSE [pc |-> "returned", ok |-> FALSE]
    /\ UNCHANGED <<log, pool_index, pool_root, jobs, job_counter, status, job_mapping,
                   handlers, chain, hist>>

\* add_leaf: let root = self.root()?; self.nodes.add_root(index + 1, root)?; Ok(())
AddLeafAddRoot(committed) ==
    /\ worker.pc = "add_root"
    /\ tree' = IF committed
               THEN [tree EXCEPT !.roots = Put(tree.roots, worker.index + 1, root(tree))]
               ELSE tree
    /\ worker' = [pc |-> "returned", ok |-> committed]
    /\ UNCHANGED <<log, pool_index, pool_root, jobs, job_counter, status, job_mapping,
                   handlers, chain, hist>>

\* The caller goes on after add_leaf returned.
AddLeafReturned ==
    /\ worker.pc = "returned"
    /\ worker' = [pc |-> "caller"]
    /\ hist' = [last |-> [op |-> "add_leaf", ok |-> worker.ok]]
    /\ UNCHANGED <<tree, log, pool_index, pool_root, jobs, job_counter, status,
                   job_mapping, handlers, chain>>

NextAddLeaf ==
    \/ \E hash \in LeafVals, committed \in BOOLEAN : AddLeafSetNode(hash, committed)
    \/ \E committed \in BOOLEAN : AddLeafSetNumLeaves(committed)
    \/ \E committed \in BOOLEAN : AddLeafAddRoot(committed)
    \/ AddLeafReturned

SpecAddLeaf == InitAddLeaf /\ [][NextAddLeaf]_vars

\* C31: once add_leaf has returned, with Ok or with the error of a failed
\* step, no leaf is stored at index num_leaves and the historic root for key
\* num_leaves is present.
C31_AddLeafAtomic ==
    worker.pc \in {"caller", "returned"} =>
        /\ get_tx(tree.nodes, H, num_leaves(tree)) = None
        /\ historic_root(tree, num_leaves(tree)) # None

-----------------------------------------------------------------------------
(* sparse-merkle-tree/src/lib.rs: SparseMerkleTree<P, H> *)

SmtH == 3

MaxOps == 3

\* Parameters::DEFAULT_LEAF_DATA, and the leaf data the callers add
DEFAULT_LEAF_DATA == 0

SmtData == {DEFAULT_LEAF_DATA, 1, 2}

SmtLeaves == 0..(Pow2(SmtH - 1) - 1)

\* P::hash of a leaf's data, and of the concatenation of two hashes
hash_data(data) == <<data>>

hash_concat(left, right) == <<left, right>>

\* new(): default_nodes[depth], from the leaf depth H - 1 up to the root
RECURSIVE smt_default_nodes(_)
smt_default_nodes(depth) ==
    IF depth = SmtH - 1 THEN hash_data(DEFAULT_LEAF_DATA)
    ELSE hash_concat(smt_default_nodes(depth + 1), smt_default_nodes(depth + 1))

smt_new == EmptyMap

map_index(depth, index) == Pow2(depth) - 1 + index

sibling_index_above(depth, cur_index) == map_index(depth - 1, xor1(cur_index))

\* add_node: let sibling_index = Self::map_index(depth, cur_index ^ 1)
sibling_index(depth, cur_index) == map_index(depth, xor1(cur_index))

\* add_node: the loop `for depth in (1..=depth).rev()`; only the parents of
\* the node are written, the node at (depth, index) itself is not
RECURSIVE add_node(_, _, _, _)
add_node(nodes, depth, cur_index, cur_hash) ==
    IF depth = 0 THEN nodes
    ELSE LET sib == sibling_index(depth, cur_index)
             sibling_hash == IF sib \in DOMAIN nodes THEN nodes[sib]
                             ELSE smt_default_nodes(depth)
             parent_hash == IF cur_index % 2 = 0
                            THEN hash_concat(cur_hash, sibling_hash)
                            ELSE hash_concat(sibling_hash, cur_hash)
             parent_index == map_index(depth - 1, cur_index \div 2)
             written == IF parent_hash # smt_default_nodes(depth - 1)
                        THEN Put(nodes, parent_index, parent_hash)
                        ELSE [x \in (DOMAIN nodes) \ {parent_index} |-> nodes[x]]
         IN  add_node(written, depth - 1, cur_index \div 2, parent_hash)

smt_add_leaf(nodes, index, data) == add_node(nodes, SmtH - 1, index, hash_data(data))

remove_node(nodes, depth, index) == add_node(nodes, depth, index, smt_default_nodes(depth))

smt_root(nodes) == IF 0 \in DOMAIN nodes THEN nodes[0] ELSE smt_default_nodes(0)

size(nodes) == Cardinality(DOMAIN nodes)

\* The root of the tree whose leaves are the hashes of the data in `leaves`
\* (default leaves elsewhere).
RECURSIVE SmtRefNode(_, _, _)
SmtRefNode(leaves, depth, index) ==
    IF depth = SmtH - 1
    THEN IF index \in DOMAIN leaves THEN hash_data(leaves[index])
         ELSE hash_data(DEFAULT_LEAF_DATA)
    ELSE hash_concat(SmtRefNode(leaves, depth + 1, 2 * index),
                     SmtRefNode(leaves, depth + 1, 2 * index + 1))

InitSmt ==
    /\ tree = [nodes |-> smt_new]
    /\ log = open_log
    /\ pool_index = 0
    /\ pool_root = default_nodes(0)
    /\ IdleQueue
    /\ IdleTasks
    /\ IdleChain
    /\ hist = [ops |-> <<>>, before |-> smt_new]

\* tree.add_leaf(index, data)
SmtAddLeaf(index, data) ==
    /\ Len(hist.ops) < MaxOps
    /\ tree' = [nodes |-> smt_add_leaf(tree.nodes, index, data)]
    /\ hist' = [ops |-> Append(hist.ops, [op |-> "add_leaf", index |-> index, data |-> data]),
                before |-> tree.nodes]
    /\ UNCHANGED <<log, pool_index, pool_root, jobs, job_counter, status, job_mapping,
                   handlers, worker, chain>>

\* tree.remove_node(H - 1, index)
SmtRemoveNode(index) ==
    /\ Len(hist.ops) < MaxOps
    /\ tree' = [nodes |-> remove_node(tree.nodes, SmtH - 1, index)]
    /\ hist' = [ops |-> Append(hist.ops, [op |-> "remove_node", index |-> index,
                                          data |-> DEFAULT_LEAF_DATA]),
                before |-> tree.nodes]
    /\ UNCHANGED <<log, pool_index, pool_root, jobs, job_counter, status, job_mapping,
                   handlers, worker, chain>>

NextSmt ==
    \/ \E index \in SmtLeaves, data \in SmtData : SmtAddLeaf(index, data)
    \/ \E index \in SmtLeaves : SmtRemoveNode(index)

SpecSmt == InitSmt /\ [][NextSmt]_vars

LastOp == hist.ops[Len(hist.ops)]

\* C32: after add_leaf(index, data), adding the same data at the same index
\* again leaves the stored nodes, and so the root, as they are.
C32_AddLeafIdempotent ==
    (hist.ops # <<>> /\ LastOp.op = "add_leaf") =>
        LET again == smt_add_leaf(tree.nodes, LastOp.index, LastOp.data)
        IN  /\ again = tree.nodes
            /\ smt_root(again) = smt_root(tree.nodes)

C32_Witness ==
    /\ Len(hist.ops) = MaxOps
    /\ LastOp.op = "add_leaf"
    /\ LastOp.data # DEFAULT_LEAF_DATA
    /\ size(hist.before) > 0
    /\ size(tree.nodes) = SmtH - 1
    /\ tree.nodes # hist.before

\* C33: after add_leaf(index, data), remove_node(H - 1, index) gives back
\* the root before the add and leaves none of the nodes the add introduced
\* (the size is the one before the add), for an index no earlier operation
\* touched.
C33_RemoveUndoesAdd ==
    (/\ hist.ops # <<>>
     /\ LastOp.op = "add_leaf"
     /\ \A k \in 1..(Len(hist.ops) - 1) : hist.ops[k].index # LastOp.index) =>
        LET removed == remove_node(tree.nodes, SmtH - 1, LastOp.index)
        IN  /\ smt_root(removed) = smt_root(hist.before)
            /\ DOMAIN removed \subseteq DOMAIN hist.before
            /\ size(removed) = size(hist.before)

\* C40: after add_leaf(0, a) and add_leaf(1, b) on an empty tree the root is
\* the root of the tree with hash(a) and hash(b) as its first two leaves.
C40_RootReflectsLeaves ==
    \A a, b \in SmtData :
        hist.ops = <<[op |-> "add_leaf", index |-> 0, data |-> a],
                    [op |-> "add_leaf", index |-> 1, data |-> b]>>
        => smt_root(tree.nodes) = SmtRefNode((0 :> a) @@ (1 :> b), 0, 0)

-----------------------------------------------------------------------------
(* The pipeline under a fair schedule, and with the failures of JobQueue::push *)

InitLive ==
    /\ tree = open_tree
    /\ log = open_log
    /\ pool_index = 0
    /\ pool_root = default_nodes(0)
    /\ jobs = <<>>
    /\ job_counter = 0
    /\ status = EmptyMap
    /\ job_mapping = EmptyMap
    /\ handlers = [h \in Handlers |->
                      IF h <= LiveHandlers THEN [pc |-> "start"] ELSE [pc |-> "off"]]
    /\ worker = [pc |-> "idle"]
    /\ chain = [pool_index |-> 0, txs |-> <<>>]
    /\ hist = [seq |-> 0, sent |-> <<>>, failures |-> {}, started |-> <<>>,
               returned |-> {}]

\* JobQueue::push returns the error of get_async_connection or incr (at
\* "prepared"), of rpush (at "incremented") or of set_ex (at "queued");
\* create_transaction returns it with `?`.
PushFails(h) ==
    /\ handlers[h].pc \in {"prepared", "incremented", "queued"}
    /\ handlers' = [handlers EXCEPT ![h] =
                       [pc |-> "push_err", payload |-> handlers[h].payload,
                        queued |-> handlers[h].pc = "queued"]]
    /\ UNCHANGED <<tree, log, pool_index, pool_root, jobs, job_counter, status,
                   job_mapping, worker, chain, hist>>

NextPushFail ==
    \/ Next
    \/ \E h \in Handlers : PushFails(h)

\* JobQueue::start's loop with process_job and process_failure: the one
\* consumer task.
Consumer ==
    \/ WorkerDequeue
    \/ WorkerAwaitTurn
    \/ \E accepted \in BOOLEAN : WorkerSendTx(accepted)
    \/ WorkerFinalizeSet
    \/ WorkerFinalizeIndex
    \/ WorkerFinalizeRoot
    \/ WorkerJobErr
    \/ PfLogRollback
    \/ PfTreeRollback
    \/ PfCancel
    \/ WorkerLoop

\* The consumer task is always scheduled again and its calls, send_tx among
\* them, return.
Fairness == WF_vars(Consumer)

SpecLive == InitLive /\ [][Next]_vars /\ Fairness

SpecPushFail == InitLive /\ [][NextPushFail]_vars

InQueue(id) == \E k \in 1..Len(jobs) : jobs[k].id = id

Finished(id) == id \in DOMAIN status /\ status[id] \in {"Completed", "Failed"}

\* C34: every job that is in the queue eventually has the status Completed
\* or Failed.
C34_EveryJobFinishes == \A id \in 1..LiveHandlers : InQueue(id) ~> Finished(id)

\* C35: when JobQueue::push failed before the job was in the queue, the leaf
\* and the placeholder row prepare_job wrote for it are not in the tree and
\* the log.
C35_FailedPushLeavesNothing ==
    \A h \in Handlers :
        (handlers[h].pc = "push_err" /\ ~handlers[h].queued) =>
            LET d == handlers[h].payload IN
            /\ leaf(tree, d.next_commit_index) # d.tx.out_commit
            /\ get(log, d.next_commit_index * TX_SIZE) = None

-----------------------------------------------------------------------------
(* The pipeline: what is mined, what is sent, and the two indices *)

\* get_transactions: is_mined = index < pool_index
is_mined(index) == index < pool_index

\* C36: every log row that get_transactions flags as mined carries the hash
\* send_tx returned for an accepted transaction, never the placeholder.
C36_MinedRowsHaveHash ==
    \A index \in DOMAIN log.keys :
        is_mined(index) =>
            /\ log.keys[index].tx_hash # ZeroHash
            /\ \E k \in 1..Len(chain.txs) : chain.txs[k].hash = log.keys[index].tx_hash

\* C37: when process_job is about to call send_tx, the root_before of the
\* job's tree_pub is the current pool_root.
C37_SendsOnPoolRoot ==
    worker.pc = "send_tx" => worker.job.data.tree_pub.root_before = pool_root

\* C38: the confirmed index never exceeds the optimistic index.
C38_ConfirmedBelowOptimistic == pool_index <= num_leaves(tree) * STRIDE

\* process_failure is running, and which of its two rollbacks are done
ProcessFailureRunning == worker.pc \in {"pf_log", "pf_tree", "pf_cancel"}

LogRolledBack == worker.pc \in {"pf_tree", "pf_cancel"}

TreeRolledBack == worker.pc = "pf_cancel"

\* C39: a prepare_job that runs while process_failure is running sees the
\* log and the tree both before or both after the rollback, and the
\* placeholder row of the leaf it appends is accepted.
C39_ProcessFailureAtomic ==
    [][\A h \in Handlers :
          (Prepare(h) /\ ProcessFailureRunning) =>
              /\ LogRolledBack <=> TreeRolledBack
              /\ handlers'[h].pc = "prepared"]_vars

====
